---- MODULE Spec2Model ----
(***************************************************************************)
(* Scenario generation and flow field of the marine navigation            *)
(* environment (src/env.py, src/env_visualizer.py).                        *)
(*                                                                         *)
(* Numbers.  Coordinates, edge speeds and obstacle radii are integers.     *)
(* The core radius r, v_rel_max and p are the rationals r_num/r_den,       *)
(* v_rel_max_num/v_rel_max_den and p_num/p_den.  A circulation Gamma is    *)
(* held as the integer Gamma * r_den / pi (= 2 * r_num * v_edge).  A       *)
(* distance is never computed: every comparison of the code on             *)
(* dis = sqrt(dx*dx + dy*dy) is made on dis*dis after multiplying out the  *)
(* denominators, both sides being non-negative where it is squared.        *)
(***************************************************************************)
EXTENDS Integers, Sequences, FiniteSets, TLC

VARIABLES
    env,    \* the Env object: cores, obstacles, core_centers and the position
            \* of a running reset call
    gv,     \* what the last get_velocity call made from outside gave
    robot,  \* env.robot: the position handed to robot.set_state
    twin,   \* a second Env constructed from the same seed, with the part of
            \* the first one's history it has not gone through yet
    frame,  \* the robot's pose and velocity, and what get_observation gave
    fcall,  \* the last call of compute_speed or get_velocity made on its own,
            \* or pass of get_velocity's loop: what it was given and what it gave
    stepc   \* the step call under way or last made

vars == <<env, gv, robot, twin, frame, fcall, stepc>>

(* ------------------------------------------------------------------ *)
(* Parameters set by Env.__init__                                      *)
(* ------------------------------------------------------------------ *)
width == 50
height == 50
r_num == 1
r_den == 2
v_rel_max_num == 1
v_rel_max_den == 2
p_num == 4
p_den == 5
v_range_lo == 5
v_range_hi == 10
obs_r_lo == 1
obs_r_hi == 5
initial == <<5, 5>>
goal == <<45, 45>>

(* ------------------------------------------------------------------ *)
(* Bounds of the model                                                 *)
(* ------------------------------------------------------------------ *)
\* number of sample positions the uniform position draw ranges over
NumPoints == 3
\* largest count a reset call is given; also the longest core or
\* obstacle list the model lets a loop that cannot exit grow
MaxCount == 2

\* Sample positions inside [0,width] x [0,height]: a cluster at distances
\* 0, 1 and 2 around the robot's initial position, and positions at
\* distances around the same-sense boundary sums (10..20).
SamplePoints ==
    << <<5, 5>>, <<7, 5>>, <<25, 5>>, <<6, 5>>, <<25, 30>>, <<45, 45>> >>

Points == { SamplePoints[k] : k \in 1..NumPoints }

\* edge speeds and obstacle radii drawn: the ends of the sampling ranges
VEdges == {v_range_lo, v_range_hi}
ObsRadii == {obs_r_lo, obs_r_hi}

(* ------------------------------------------------------------------ *)
(* Core, Obstacle                                                      *)
(* ------------------------------------------------------------------ *)
Core(x, y, clockwise, Gamma) ==
    [x |-> x, y |-> y, clockwise |-> clockwise, Gamma |-> Gamma]

Obstacle(x, y, r) == [x |-> x, y |-> y, r |-> r]

\* Gamma = 2 * pi * r * v_edge, held as Gamma * r_den / pi
GammaOf(v_edge) == 2 * r_num * v_edge

\* dx*dx + dy*dy
Dis2(a, b) == (a.x - b.x) * (a.x - b.x) + (a.y - b.y) * (a.y - b.y)

\* one candidate of the core loop: uniform position, binomial(1, 0.5)
\* direction, uniform edge speed
CoreCandidates ==
    { Core(pt[1], pt[2], d, GammaOf(v)) : pt \in Points, d \in {0, 1}, v \in VEdges }

\* one candidate of the obstacle loop: uniform position, uniform radius
ObstacleCandidates ==
    { Obstacle(pt[1], pt[2], rr) : pt \in Points, rr \in ObsRadii }

(* ------------------------------------------------------------------ *)
(* Env.check_core                                                      *)
(* ------------------------------------------------------------------ *)
\* the test with boundary_j left out of the sum: dis < boundary_i
SameSenseTooClose_oneBoundary(core_i, core_j) ==
    Dis2(core_i, core_j) * (2 * r_den * v_rel_max_num) * (2 * r_den * v_rel_max_num)
        < (core_i.Gamma * v_rel_max_den) * (core_i.Gamma * v_rel_max_den)

\* dis < boundary_i + boundary_j, boundary = Gamma / (2*pi*v_rel_max)
SameSenseTooClose(core_i, core_j) ==
    Dis2(core_i, core_j) * (2 * r_den * v_rel_max_num) * (2 * r_den * v_rel_max_num)
        < ((core_i.Gamma + core_j.Gamma) * v_rel_max_den)
            * ((core_i.Gamma + core_j.Gamma) * v_rel_max_den)

Max2(a, b) == IF a >= b THEN a ELSE b
Min2(a, b) == IF a <= b THEN a ELSE b

\* the test with the factor p left out: v_1 > v_2
OppositeTooFast_noP(core_i, core_j) ==
    LET Gamma_l == Max2(core_i.Gamma, core_j.Gamma)
        Gamma_s == Min2(core_i.Gamma, core_j.Gamma)
        d2 == Dis2(core_i, core_j)
        lhs == Gamma_l * r_num + 2 * r_num * Gamma_s
        rhs == Gamma_s * r_den
    IN  /\ d2 * r_den * r_den >= 4 * r_num * r_num
        /\ \/ d2 * r_den * r_den = 4 * r_num * r_num
           \/ lhs * lhs > rhs * rhs * d2

\* v_1 > p * v_2 with v_1 = Gamma_l / (2*pi*(dis - 2r)), v_2 = Gamma_s / (2*pi*r).
\* dis - 2r < 0 : v_1 is negative, the test is false;
\* dis - 2r = 0 : the float division gives +inf, the test is true;
\* dis - 2r > 0 : Gamma_l * r > p * Gamma_s * (dis - 2r).
OppositeTooFast(core_i, core_j) ==
    LET Gamma_l == Max2(core_i.Gamma, core_j.Gamma)
        Gamma_s == Min2(core_i.Gamma, core_j.Gamma)
        d2 == Dis2(core_i, core_j)
        lhs == Gamma_l * r_num * p_den + 2 * r_num * p_num * Gamma_s
        rhs == p_num * Gamma_s * r_den
    IN  /\ d2 * r_den * r_den >= 4 * r_num * r_num
        /\ \/ d2 * r_den * r_den = 4 * r_num * r_num
           \/ lhs * lhs > rhs * rhs * d2

check_core(cores, core_j) ==
    \A i \in 1..Len(cores) :
        IF cores[i].clockwise = core_j.clockwise
        THEN ~SameSenseTooClose(cores[i], core_j)
        ELSE ~OppositeTooFast(cores[i], core_j)

(* ------------------------------------------------------------------ *)
(* Env.check_obstacle                                                  *)
(* ------------------------------------------------------------------ *)
\* dis <= self.r + obs.r
CollidesCore(core, obs) ==
    Dis2(core, obs) * r_den * r_den
        <= (r_num + obs.r * r_den) * (r_num + obs.r * r_den)

\* the test with < for <=: obstacles that touch do not collide
CollidesObstacle_strict(obstacle, obs) ==
    Dis2(obstacle, obs) < (obstacle.r + obs.r) * (obstacle.r + obs.r)

\* dis <= obstacle.r + obs.r
CollidesObstacle(obstacle, obs) ==
    Dis2(obstacle, obs) <= (obstacle.r + obs.r) * (obstacle.r + obs.r)

check_obstacle(cores, obstacles, obs) ==
    /\ \A i \in 1..Len(cores) : ~CollidesCore(cores[i], obs)
    /\ \A i \in 1..Len(obstacles) : ~CollidesObstacle(obstacles[i], obs)

(* ------------------------------------------------------------------ *)
(* scipy.spatial.KDTree over the core centres                          *)
(* ------------------------------------------------------------------ *)
\* the rows of `centers`: the positions of the cores, in list order
Centers(cores) == [i \in 1..Len(cores) |-> <<cores[i].x, cores[i].y>>]

\* KDTree.query(point, k): the indices of the k indexed points nearest to
\* (x, y), ascending by distance (ties in index order)
RECURSIVE NearestFirst(_, _, _, _)
NearestFirst(core_centers, left, x, y) ==
    IF left = {} THEN <<>>
    ELSE LET d2(i) == (core_centers[i][1] - x) * (core_centers[i][1] - x)
                      + (core_centers[i][2] - y) * (core_centers[i][2] - y)
             best == CHOOSE i \in left :
                        \A j \in left : d2(i) < d2(j) \/ (d2(i) = d2(j) /\ i <= j)
         IN  <<best>> \o NearestFirst(core_centers, left \ {best}, x, y)

SubSeqTo(s, k) == [i \in 1..Min2(k, Len(s)) |-> s[i]]

query(core_centers, x, y, k) ==
    SubSeqTo(NearestFirst(core_centers, DOMAIN core_centers, x, y), k)

(* ------------------------------------------------------------------ *)
(* Rational numbers <<numerator, denominator>>, denominator > 0        *)
(* ------------------------------------------------------------------ *)
Abs(a) == IF a < 0 THEN -a ELSE a

GCDf[a \in Nat, b \in Nat] == IF b = 0 THEN a ELSE GCDf[b, a % b]
GCD(a, b) == GCDf[a, b]

Rat(n, d) ==
    LET g == GCD(Abs(n), Abs(d))
        s == IF d < 0 THEN -1 ELSE 1
    IN  <<(s * n) \div g, (s * d) \div g>>

\* a + b over the least common denominator
RatAdd(a, b) ==
    LET g == GCD(a[2], b[2])
    IN  Rat(a[1] * (b[2] \div g) + b[1] * (a[2] \div g), (a[2] \div g) * b[2])
RatMul(a, b) == Rat(a[1] * b[1], a[2] * b[2])
RatZero == <<0, 1>>

(* ------------------------------------------------------------------ *)
(* Env.compute_speed, Env.get_velocity                                 *)
(* ------------------------------------------------------------------ *)
\* compute_speed(Gamma, dis) / dis as a function of dis*dis (dis > 0):
\*   dis <= r : Gamma / (2*pi*r*r)
\*   dis >  r : Gamma / (2*pi*dis*dis)
SpeedOverDis(Gamma, d2) ==
    IF d2 * r_den * r_den <= r_num * r_num
    THEN Rat(Gamma * r_den, 2 * r_num * r_num)
    ELSE Rat(Gamma, 2 * r_den * d2)

\* the two matrices the other way round
Tangent_swapped(core, dx, dy) ==
    IF core.clockwise = 1 THEN <<dy, 0 - dx>> ELSE <<0 - dy, dx>>

\* rotation * v_radial, before the division by dis
Tangent(core, dx, dy) ==
    IF core.clockwise = 1 THEN <<0 - dy, dx>> ELSE <<dy, 0 - dx>>

\* v_tangent * speed of one core at (x, y): "nan" when dis = 0
\* (v_radial /= dis is 0/0), else the rational vector
Contribution(core, x, y) ==
    LET dx == core.x - x
        dy == core.y - y
        d2 == dx * dx + dy * dy
        t  == Tangent(core, dx, dy)
        s  == SpeedOverDis(core.Gamma, d2)
    IN  IF d2 = 0
        THEN [status |-> "nan", vx |-> RatZero, vy |-> RatZero]
        ELSE [status |-> "ok", vx |-> RatMul(<<t[1], 1>>, s), vy |-> RatMul(<<t[2], 1>>, s)]

\* v_velocity += v_tangent * speed; a nan stays a nan
Accumulate(acc, c) ==
    IF acc.status = "nan" \/ c.status = "nan"
    THEN [status |-> "nan", vx |-> RatZero, vy |-> RatZero]
    ELSE [status |-> "ok", vx |-> RatAdd(acc.vx, c.vx), vy |-> RatAdd(acc.vy, c.vy)]

\* np.transpose(v) * v_radial, up to the positive factor 1/dis that
\* `v_radial /= dis` has put into the stored v (for dis = 0 the stored v is
\* nan and project > 0 is false, as it is for the product 0 here)
project(v, v_radial) == v[1] * v_radial[1] + v[2] * v_radial[2]

\* a `continue` that ends the pass of the outer loop
RECURSIVE occlusion_loop_skipsCore(_, _)
occlusion_loop_skipsCore(v_radial_set, v_radial) ==
    IF v_radial_set = <<>> THEN TRUE
    ELSE IF project(Head(v_radial_set), v_radial) > 0
         THEN FALSE
         ELSE occlusion_loop_skipsCore(Tail(v_radial_set), v_radial)

\* the inner loop, lines 195-198: whether control reaches line 200 after
\* it.  `continue` goes on with the next v of the inner loop.
RECURSIVE occlusion_loop(_, _)
occlusion_loop(v_radial_set, v_radial) ==
    IF v_radial_set = <<>> THEN TRUE
    ELSE IF project(Head(v_radial_set), v_radial) > 0
         THEN occlusion_loop(Tail(v_radial_set), v_radial)
         ELSE occlusion_loop(Tail(v_radial_set), v_radial)

\* one pass of the loop of lines 191-209, for `core`: the running sum and
\* v_radial_set after it
velocity_pass(core, x, y, acc, v_radial_set) ==
    LET v_radial == <<core.x - x, core.y - y>>
    IN  IF occlusion_loop(v_radial_set, v_radial)
        THEN CHOOSE after \in
                 { [acc |-> next, v_radial_set |-> Append(v_radial_set, v_radial)] :
                     next \in { Accumulate(acc, c) : c \in {Contribution(core, x, y)} } } :
                 TRUE
        ELSE [acc |-> acc, v_radial_set |-> v_radial_set]

\* the loop of lines 191-209 over idx, from the running sum acc
RECURSIVE SumCores(_, _, _, _, _, _)
SumCores(cores, idx, x, y, acc, v_radial_set) ==
    IF idx = <<>> THEN acc
    ELSE CHOOSE v \in { SumCores(cores, Tail(idx), x, y, after.acc, after.v_radial_set) :
                            after \in { velocity_pass(cores[Head(idx)], x, y,
                                                      acc, v_radial_set) } } : TRUE

Raised(what) == [status |-> what, vx |-> RatZero, vy |-> RatZero]

\* The results get_velocity(x, y) can give.
\*   k = len(cores) = 1 : query returns a scalar index, list(idx) raises TypeError;
\*   k = 0 (an index kept from an earlier core set): the library either
\*     rejects k or returns no neighbour, and the loop adds nothing;
\*   an index beyond the core list raises IndexError.
get_velocity(cores, core_centers, x, y) ==
    LET k == Len(cores)
        zero == [status |-> "ok", vx |-> RatZero, vy |-> RatZero]
    IN  IF k = 1 THEN {Raised("TypeError")}
        ELSE IF k = 0 THEN {Raised("ValueError"), zero}
        ELSE { IF \E n \in 1..Len(idx) : idx[n] > Len(cores)
               THEN Raised("IndexError")
               ELSE SumCores(cores, idx, x, y, zero, <<>>) :
                   idx \in {query(core_centers, x, y, k)} }

(* ------------------------------------------------------------------ *)
(* The Env object                                                      *)
(* ------------------------------------------------------------------ *)
\* Env.__init__ up to the reset() call that ends it: the first reset of a
\* behaviour is that call, with its counts drawn from 0..MaxCount.
\*   pc          "idle" between calls, "core_loop" / "obs_loop" inside reset
\*   num_cores,
\*   num_obs     reset's parameters, counted down by the loops
\*   req_cores,
\*   req_obs     the values reset was called with
\*   op, outcome the last call that changed the scenario and how it ended
\*   replaced    whether that call found a core or an obstacle to discard
\*   rd          self.rd, as far as the model follows it: the parity of the
\*               number of candidates drawn (every draw changes the generator)
EnvInit ==
    [cores |-> <<>>, obstacles |-> <<>>, core_centers |-> <<>>, rd |-> FALSE,
     pc |-> "idle", num_cores |-> 0, num_obs |-> 0,
     req_cores |-> 0, req_obs |-> 0, op |-> "init", outcome |-> "returned",
     replaced |-> FALSE]

NoCall == [status |-> "none", vx |-> RatZero, vy |-> RatZero]

\* robot.set_state(x, y, current_velocity): the position is the one given
set_state(rb, x, y, current_velocity) == [rb EXCEPT !.x = x, !.y = y]

\* reset that empties the obstacle list only
reset_entry_keepCores(e, num_cores, num_obs) ==
    [e EXCEPT !.obstacles = <<>>,
              !.num_cores = num_cores, !.num_obs = num_obs,
              !.req_cores = num_cores, !.req_obs = num_obs,
              !.replaced = (e.cores # <<>> \/ e.obstacles # <<>>),
              !.pc = "core_loop", !.op = "reset", !.outcome = "running"]

\* reset, lines 55-56: both lists are emptied; the loops start
reset_entry(e, num_cores, num_obs) ==
    [e EXCEPT !.cores = <<>>, !.obstacles = <<>>,
              !.replaced = (e.cores # <<>> \/ e.obstacles # <<>>),
              !.num_cores = num_cores, !.num_obs = num_obs,
              !.req_cores = num_cores, !.req_obs = num_obs,
              !.pc = "core_loop", !.op = "reset", !.outcome = "running"]

\* reset, lines 60-69, one pass of the core loop with candidate `core`;
\* on leaving the loop, lines 71-80 build the KDTree
core_pass(e, core) ==
    LET ok == check_core(e.cores, core)
        cores1 == IF ok THEN Append(e.cores, core) ELSE e.cores
        left == IF ok THEN e.num_cores - 1 ELSE e.num_cores
    IN  IF left = 0
        THEN [e EXCEPT !.cores = cores1, !.num_cores = left, !.rd = ~e.rd,
                       !.core_centers = Centers(cores1), !.pc = "obs_loop"]
        ELSE [e EXCEPT !.cores = cores1, !.num_cores = left, !.rd = ~e.rd]

\* reset, lines 84-91, one pass of the obstacle loop with candidate `obs`
obstacle_pass(e, obs) ==
    LET ok == check_obstacle(e.cores, e.obstacles, obs)
        obstacles1 == IF ok THEN Append(e.obstacles, obs) ELSE e.obstacles
        left == IF ok THEN e.num_obs - 1 ELSE e.num_obs
    IN  [e EXCEPT !.obstacles = obstacles1, !.num_obs = left, !.rd = ~e.rd]

\* reset, lines 94-95, after the obstacle loop: the field at the initial
\* position; an exception of get_velocity ends the call
reset_exit(e, current_v) ==
    [e EXCEPT !.pc = "idle",
              !.outcome = IF current_v.status \in {"ok", "nan"}
                          THEN "returned" ELSE current_v.status]

\* reset, lines 84-95, from the obstacle loop on: one pass and, when it
\* leaves the loop, the end of the call.  The Env and robot it can leave.
obstacle_step(e, rb, obs) ==
    LET e1 == obstacle_pass(e, obs)
    IN  IF e1.num_obs = 0
        THEN { [env |-> reset_exit(e1, current_v),
                robot |-> IF current_v.status \in {"ok", "nan"}
                          THEN set_state(rb, initial[1], initial[2], current_v)
                          ELSE rb] :
                 current_v \in get_velocity(e1.cores, e1.core_centers, initial[1], initial[2]) }
        ELSE { [env |-> e1, robot |-> rb] }

\* EnvVisualizer.load_episode, lines 280-311: the recorded cores and
\* obstacles replace the lists; the KDTree is built only when the record
\* holds a core (centers is not None).  The record's constraint parameters
\* are those of Env.__init__.
load_episode(e, episode) ==
    [e EXCEPT !.cores = episode.cores,
              !.core_centers = IF episode.cores # <<>>
                               THEN Centers(episode.cores) ELSE e.core_centers,
              !.obstacles = episode.obstacles,
              !.replaced = (e.cores # <<>> \/ e.obstacles # <<>>),
              !.op = "load_episode", !.outcome = "returned"]

\* the records load_episode is given: an empty core list or one core at
\* the initial position, an empty obstacle list or one obstacle at the goal
EpisodeCores ==
    {<<>>} \cup { <<Core(initial[1], initial[2], clockwise, GammaOf(v_edge))>> :
                    clockwise \in {0, 1}, v_edge \in VEdges }

EpisodeObstacles == {<<>>} \cup { <<Obstacle(goal[1], goal[2], r)>> : r \in ObsRadii }

Episodes == [cores : EpisodeCores, obstacles : EpisodeObstacles]

\* the points the field is asked at: the sample positions (among them the
\* initial position and every core centre) and one outside the domain
QueryPoints == Points \cup { <<0 - 5, height + 10>> }

(* ------------------------------------------------------------------ *)
(* self.rd: the seeded generator of one Env                            *)
(* ------------------------------------------------------------------ *)
\* What one pass of a loop takes from the generator: a position, the
\* binomial(1, 0.5) value (the core loop only) and the place u in its range
\* of the second uniform value (0: the low end, 1: the high end).
RawDraws == [center : Points, direction : {0, 1}, u : {0, 1}]

\* the obstacle loop takes no binomial value: direction stays 0
ObstacleDraws == { raw \in RawDraws : raw.direction = 0 }

\* self.rd.uniform(low, high) at place u
uniform(low, high, u) == low + (high - low) * u

\* reset, lines 60-64: the candidate core made of a pass's values
core_of(raw) ==
    Core(raw.center[1], raw.center[2], raw.direction,
         GammaOf(uniform(v_range_lo, v_range_hi, raw.u)))

\* reset, lines 84-86: the candidate obstacle made of a pass's values
obstacle_of(raw) ==
    Obstacle(raw.center[1], raw.center[2], uniform(obs_r_lo, obs_r_hi, raw.u))

\* What the first Env went through and the second has not yet: reset calls
\* and, for each pass of a loop, the values its generator gave.
NoRaw == [center |-> <<0, 0>>, direction |-> 0, u |-> 0]
Called(num_cores, num_obs) ==
    [kind |-> "reset", num_cores |-> num_cores, num_obs |-> num_obs, raw |-> NoRaw]
Drawn(raw) == [kind |-> "draw", num_cores |-> 0, num_obs |-> 0, raw |-> raw]

\* a generator of any other state: its next values are anything
rd_next_unseeded(pending) == RawDraws

\* __init__, line 29: the generator is the Env's own and starts from the
\* seed, so the second Env's generator gives, at each place of its stream,
\* the values the first one's gave there: the oldest not yet taken.
rd_next(pending) == { Head(pending).raw }

RobotInit == [x |-> initial[1], y |-> initial[2]]

TwinInit == [env |-> EnvInit, robot |-> RobotInit, pending |-> <<>>, diverged |-> FALSE]

\* The second Env takes the step the first one took.  It has diverged when
\* it is not where that step starts: inside a loop when the next call
\* comes, or back from reset when the first one made another pass.
twin_reset(t, call) ==
    IF t.env.pc = "idle"
    THEN { [t EXCEPT !.env = reset_entry(t.env, call.num_cores, call.num_obs),
                     !.pending = Tail(t.pending)] }
    ELSE { [t EXCEPT !.diverged = TRUE, !.pending = Tail(t.pending)] }

twin_pass(t, raw) ==
    IF t.env.pc = "core_loop"
    THEN { [t EXCEPT !.env = core_pass(t.env, core_of(raw)),
                     !.pending = Tail(t.pending)] }
    ELSE IF t.env.pc = "obs_loop"
    THEN { [t EXCEPT !.env = after.env, !.robot = after.robot,
                     !.pending = Tail(t.pending)] :
             after \in obstacle_step(t.env, t.robot, obstacle_of(raw)) }
    ELSE { [t EXCEPT !.diverged = TRUE, !.pending = Tail(t.pending)] }

(* ------------------------------------------------------------------ *)
(* Env.get_observation: world frame to robot frame                     *)
(* ------------------------------------------------------------------ *)
RatNeg(a) == <<0 - a[1], a[2]>>
RatVec(v) == <<Rat(v[1], 1), Rat(v[2], 1)>>
VecAdd(u, v) == <<RatAdd(u[1], v[1]), RatAdd(u[2], v[2])>>
VecNeg(u) == <<RatNeg(u[1]), RatNeg(u[2])>>
\* np.matrix product of a 2x2 matrix and a column
MatVec(M, v) ==
    <<RatAdd(RatMul(M[1][1], v[1]), RatMul(M[1][2], v[2])),
      RatAdd(RatMul(M[2][1], v[1]), RatMul(M[2][2], v[2]))>>
transpose(M) == << <<M[1][1], M[2][1]>>, <<M[1][2], M[2][2]>> >>

\* A heading theta is held as <<cos, sin>> * HeadingScale, on the angles
\* where both are rational: the integer points of the circle.
HeadingScale == 5
Headings ==
    { h \in ((0 - HeadingScale)..HeadingScale) \X ((0 - HeadingScale)..HeadingScale) :
        h[1] * h[1] + h[2] * h[2] = HeadingScale * HeadingScale }

\* robot.get_robot_transform(): the rotation by theta and the position
get_robot_transform(rb) ==
    LET c == Rat(rb.theta[1], HeadingScale)
        sn == Rat(rb.theta[2], HeadingScale)
    IN  [R_wr |-> << <<c, RatNeg(sn)>>, <<sn, c>> >>,
         t_wr |-> RatVec(<<rb.x, rb.y>>)]

\* R_wr taken as it is
world_to_body_noTranspose(R_wr, t_wr) ==
    [R_rw |-> R_wr, t_rw |-> VecNeg(MatVec(R_wr, t_wr))]

\* get_observation, lines 117-118
world_to_body(R_wr, t_wr) ==
    [R_rw |-> transpose(R_wr), t_rw |-> VecNeg(MatVec(transpose(R_wr), t_wr))]

NoObservation ==
    [status |-> "none", abs_velocity_r |-> <<RatZero, RatZero>>,
     sonar_points_r |-> <<>>, goal_r |-> <<RatZero, RatZero>>]

\* get_observation, lines 115-135, with robot.sonar.reflections as
\* sonar_reflection left them; sonar_points_r is <<>> for None
get_observation(rb, reflections) ==
    LET T == get_robot_transform(rb)
        W == world_to_body(T.R_wr, T.t_wr)
        point_r(point) == VecAdd(MatVec(W.R_rw, RatVec(point)), W.t_rw)
    IN  [status |-> "returned",
         abs_velocity_r |-> MatVec(W.R_rw, RatVec(rb.velocity)),
         sonar_points_r |->
             [i \in 1..Len(reflections) |->
                 <<point_r(reflections[i])[1], point_r(reflections[i])[2],
                   reflections[i][3]>>],
         goal_r |-> point_r(goal)]

\* the robot as constructed and placed by reset: at the initial position
FrameInit ==
    [x |-> initial[1], y |-> initial[2], theta |-> <<HeadingScale, 0>>,
     velocity |-> <<0, 0>>, reflections |-> <<>>, obs |-> NoObservation]

\* positions, velocities and sonar reflections (x, y, flag) the robot is in
FramePositions == { <<initial[1], initial[2]>>, <<0, 0>>, <<0 - 3, 12>>, <<goal[1], goal[2]>> }
FrameVelocities == { <<0, 0>>, <<1, 0>>, <<0 - 2, 3>> }
FrameReflections ==
    { <<>>, << <<10, 0 - 4, 1>> >>, << <<10, 0 - 4, 1>>, <<45, 45, 0>> >> }

(* ------------------------------------------------------------------ *)
(* compute_speed and get_velocity called on their own                  *)
(* ------------------------------------------------------------------ *)
\* largest distance compute_speed is given, in halves of r
MaxDis == 8

\* the distances compute_speed is given: 0, r/2, r, 3r/2, ...
Distances == { Rat(n * r_num, 2 * r_den) : n \in 0..MaxDis }

\* the circulations it is given: those of the edge speeds of v_range
Gammas == { GammaOf(v_edge) : v_edge \in v_range_lo..v_range_hi }

\* the second branch at every distance
compute_speed_noRamp(Gamma, d) == Rat(Gamma * d[2], 2 * r_den * d[1])

\* compute_speed(Gamma, d), lines 213-217, d a rational:
\*   d <= r : Gamma / (2*pi*r*r) * d
\*   d >  r : Gamma / (2*pi*d)
compute_speed(Gamma, d) ==
    IF d[1] * r_den <= r_num * d[2]
    THEN RatMul(Rat(Gamma * r_den, 2 * r_num * r_num), d)
    ELSE Rat(Gamma * d[2], 2 * r_den * d[1])

\* the core lists get_velocity is given on its own: two cores and more,
\* of either sense at every sample position, the clockwise ones of the
\* weakest circulation and the others of the strongest
FieldCandidates ==
    { c \in CoreCandidates :
        c.Gamma = GammaOf(IF c.clockwise = 1 THEN v_range_lo ELSE v_range_hi) }

FieldCores ==
    UNION { [1..n -> FieldCandidates] : n \in 2..(MaxCount + 1) }

\* the points it is asked at: the sample positions (every core centre
\* among them) and one below the domain
FieldPoints == Points \cup { <<initial[1], 0 - 1>> }

NoPureCall == [op |-> "none", in |-> <<>>, out |-> <<>>]

(* ------------------------------------------------------------------ *)
(* Env.step                                                            *)
(* ------------------------------------------------------------------ *)
\* robot.N, the number of integration sub-steps of one step
RobotN == 2

\* robot.update_state(action, current_velocity): the robot is somewhere
\* else afterwards
update_state(rb, pos) == [rb EXCEPT !.x = pos[1], !.y = pos[2]]

\* no step call made yet.  During and after a call:
\*   pc        "loop" inside the for loop, "done" after the call
\*   outcome   "running", "returned" or the exception that ended the call
\*   updates   the number of update_state calls made
\*   passes    for each pass of the loop, where the field was evaluated
\*             (at) and where update_state left the robot (to)
\*   start     the robot's position when step was called
\*   scenario  the cores, obstacles and index when step was called
StepIdle ==
    [pc |-> "idle", outcome |-> "none", updates |-> 0, passes |-> <<>>,
     start |-> <<>>, scenario |-> <<>>]

Scenario(e) == <<e.cores, e.obstacles, e.core_centers>>

\* step, line 101: the loop is entered (robot.N >= 1)
step_entry(e, rb) ==
    [pc |-> "loop", outcome |-> "running", updates |-> 0, passes |-> <<>>,
     start |-> <<rb.x, rb.y>>, scenario |-> Scenario(e)]

\* step, lines 102-103, one pass: the field at the robot's position, then
\* update_state with it; an exception of get_velocity ends the call.
\* The step state and robot after the pass.
step_pass(st, e, rb, pos) ==
    { IF current_velocity.status \in {"ok", "nan"}
      THEN [stepc |-> [st EXCEPT
                         !.updates = @ + 1,
                         !.passes = Append(@, [at |-> <<rb.x, rb.y>>, to |-> pos]),
                         !.pc = IF Len(st.passes) + 1 = RobotN THEN "done" ELSE "loop",
                         !.outcome = IF Len(st.passes) + 1 = RobotN
                                     THEN "returned" ELSE "running"],
            robot |-> update_state(rb, pos)]
      ELSE [stepc |-> [st EXCEPT !.pc = "done", !.outcome = current_velocity.status],
            robot |-> rb] :
        current_velocity \in get_velocity(e.cores, e.core_centers, rb.x, rb.y) }

(* ------------------------------------------------------------------ *)
(* Actions                                                             *)
(* ------------------------------------------------------------------ *)
Init ==
    /\ env = EnvInit
    /\ gv = NoCall
    /\ robot = RobotInit
    /\ twin = TwinInit
    /\ frame = FrameInit
    /\ fcall = NoPureCall
    /\ stepc = StepIdle

Reset(num_cores, num_obs) ==
    /\ env.pc = "idle"
    /\ env' = reset_entry(env, num_cores, num_obs)
    /\ gv' = NoCall
    /\ UNCHANGED <<robot, twin, frame, fcall, stepc>>

DrawCore(core) ==
    /\ env.pc = "core_loop"
    /\ check_core(env.cores, core) => Len(env.cores) < MaxCount
    /\ env' = core_pass(env, core)
    /\ UNCHANGED <<gv, robot, twin, frame, fcall, stepc>>

DrawObstacle(obs) ==
    /\ env.pc = "obs_loop"
    /\ check_obstacle(env.cores, env.obstacles, obs) => Len(env.obstacles) < MaxCount
    /\ \E after \in obstacle_step(env, robot, obs) :
           /\ env' = after.env
           /\ robot' = after.robot
    /\ UNCHANGED <<gv, twin, frame, fcall, stepc>>

\* a call of get_velocity from outside reset (init_visualize's grid,
\* step, one_step, play_episode)
GetVelocity(x, y) ==
    /\ env.pc = "idle"
    /\ env.op # "init"
    /\ gv' \in get_velocity(env.cores, env.core_centers, x, y)
    /\ UNCHANGED <<env, robot, twin, frame, fcall, stepc>>

LoadEpisode(episode) ==
    /\ env.pc = "idle"
    /\ env.op # "init"
    /\ env' = load_episode(env, episode)
    /\ gv' = NoCall
    /\ UNCHANGED <<robot, twin, frame, fcall, stepc>>

Next ==
    \/ \E num_cores, num_obs \in 0..MaxCount : Reset(num_cores, num_obs)
    \/ \E core \in CoreCandidates : DrawCore(core)
    \/ \E obs \in ObstacleCandidates : DrawObstacle(obs)
    \/ \E q \in QueryPoints : GetVelocity(q[1], q[2])
    \/ \E episode \in Episodes : LoadEpisode(episode)

Spec == Init /\ [][Next]_vars

\* A running reset call goes on running: the loop it is in takes its next
\* pass.  Nothing makes a caller call again.
FairSpec ==
    /\ Spec
    /\ WF_vars(\E core \in CoreCandidates : DrawCore(core))
    /\ WF_vars(\E obs \in ObstacleCandidates : DrawObstacle(obs))

(* ------------------------------------------------------------------ *)
(* Two Envs of one seed, given the same reset calls                    *)
(* ------------------------------------------------------------------ *)
\* the first Env takes a step when the second has taken the one before
Ahead == ~twin.diverged /\ twin.pending = <<>>

FirstReset(num_cores, num_obs) ==
    /\ Ahead
    /\ env.pc = "idle"
    /\ env' = reset_entry(env, num_cores, num_obs)
    /\ twin' = [twin EXCEPT !.pending = Append(@, Called(num_cores, num_obs))]
    /\ UNCHANGED <<gv, robot, frame, fcall, stepc>>

FirstDrawCore(raw) ==
    /\ Ahead
    /\ env.pc = "core_loop"
    /\ check_core(env.cores, core_of(raw)) => Len(env.cores) < MaxCount
    /\ env' = core_pass(env, core_of(raw))
    /\ twin' = [twin EXCEPT !.pending = Append(@, Drawn(raw))]
    /\ UNCHANGED <<gv, robot, frame, fcall, stepc>>

FirstDrawObstacle(raw) ==
    /\ Ahead
    /\ env.pc = "obs_loop"
    /\ check_obstacle(env.cores, env.obstacles, obstacle_of(raw))
          => Len(env.obstacles) < MaxCount
    /\ \E after \in obstacle_step(env, robot, obstacle_of(raw)) :
           /\ env' = after.env
           /\ robot' = after.robot
    /\ twin' = [twin EXCEPT !.pending = Append(@, Drawn(raw))]
    /\ UNCHANGED <<gv, frame, fcall, stepc>>

SecondReset ==
    /\ ~twin.diverged
    /\ twin.pending # <<>>
    /\ Head(twin.pending).kind = "reset"
    /\ twin' \in twin_reset(twin, Head(twin.pending))
    /\ UNCHANGED <<env, gv, robot, frame, fcall, stepc>>

SecondDraw ==
    /\ ~twin.diverged
    /\ twin.pending # <<>>
    /\ Head(twin.pending).kind = "draw"
    /\ \E raw \in rd_next(twin.pending) : twin' \in twin_pass(twin, raw)
    /\ UNCHANGED <<env, gv, robot, frame, fcall, stepc>>

\* the reset calls both Envs are given have counts of one and more
NextDet ==
    \/ \E num_cores, num_obs \in 1..MaxCount : FirstReset(num_cores, num_obs)
    \/ \E raw \in RawDraws : FirstDrawCore(raw)
    \/ \E raw \in ObstacleDraws : FirstDrawObstacle(raw)
    \/ SecondReset
    \/ SecondDraw

SpecDet == Init /\ [][NextDet]_vars

(* ------------------------------------------------------------------ *)
(* The robot moves and is observed                                     *)
(* ------------------------------------------------------------------ *)
\* robot.update_state (step, line 103) leaves the robot at some pose with
\* some velocity
UpdateState(pos, theta, velocity) ==
    /\ frame' = [frame EXCEPT !.x = pos[1], !.y = pos[2], !.theta = theta,
                              !.velocity = velocity, !.obs = NoObservation]
    /\ UNCHANGED <<env, gv, robot, twin, fcall, stepc>>

\* get_observation; robot.sonar_reflection leaves `reflections`
GetObservation(reflections) ==
    /\ frame' = [frame EXCEPT !.reflections = reflections,
                              !.obs = get_observation(frame, reflections)]
    /\ UNCHANGED <<env, gv, robot, twin, fcall, stepc>>

NextFrame ==
    \/ \E pos \in FramePositions, theta \in Headings, velocity \in FrameVelocities :
          UpdateState(pos, theta, velocity)
    \/ \E reflections \in FrameReflections : GetObservation(reflections)

SpecFrame == Init /\ [][NextFrame]_vars

(* ------------------------------------------------------------------ *)
(* The flow field on its own                                           *)
(* ------------------------------------------------------------------ *)
\* One call is looked at in a behaviour: the calls change nothing a later
\* call reads.
ComputeSpeed(Gamma, d) ==
    /\ fcall.op = "none"
    /\ fcall' = [op |-> "compute_speed", in |-> [Gamma |-> Gamma, d |-> d],
                 out |-> compute_speed(Gamma, d)]
    /\ UNCHANGED <<env, gv, robot, twin, frame, stepc>>

\* get_velocity(x, y) on an Env holding `cores` and their index
FieldAt(cores, x, y) ==
    /\ fcall.op = "none"
    /\ fcall' \in { [op |-> "get_velocity", in |-> [cores |-> cores, x |-> x, y |-> y],
                     out |-> v] :
                      v \in get_velocity(cores, Centers(cores), x, y) }
    /\ UNCHANGED <<env, gv, robot, twin, frame, stepc>>

\* the first pass of get_velocity's loop, for `core`, asked at (x, y):
\* v_radial and v_tangent times dis, and the sum after the pass
VelocityPass(core, x, y) ==
    /\ fcall.op = "none"
    /\ fcall' = [op |-> "pass", in |-> [core |-> core, x |-> x, y |-> y],
                 out |-> [v_radial |-> <<core.x - x, core.y - y>>,
                          v_tangent |-> Tangent(core, core.x - x, core.y - y),
                          v_velocity |->
                              velocity_pass(core, x, y,
                                            [status |-> "ok", vx |-> RatZero, vy |-> RatZero],
                                            <<>>).acc]]
    /\ UNCHANGED <<env, gv, robot, twin, frame, stepc>>

NextField ==
    \/ \E Gamma \in Gammas, d \in Distances : ComputeSpeed(Gamma, d)
    \/ \E core \in CoreCandidates, q \in FieldPoints : VelocityPass(core, q[1], q[2])
    \/ \E cores \in FieldCores, q \in FieldPoints : FieldAt(cores, q[1], q[2])

SpecField == Init /\ [][NextField]_vars

(* ------------------------------------------------------------------ *)
(* A scenario is made, then the robot is stepped                       *)
(* ------------------------------------------------------------------ *)
StepCall ==
    /\ env.pc = "idle" /\ env.op # "init"
    /\ stepc.pc # "loop"
    /\ stepc' = step_entry(env, robot)
    /\ UNCHANGED <<env, gv, robot, twin, frame, fcall>>

SubStep(pos) ==
    /\ stepc.pc = "loop"
    /\ \E after \in step_pass(stepc, env, robot, pos) :
          /\ stepc' = after.stepc
          /\ robot' = after.robot
    /\ UNCHANGED <<env, gv, twin, frame, fcall>>

\* the scenario is made by reset and load_episode before the first step
NextStep ==
    \/ /\ stepc.pc = "idle"
       /\ \/ \E num_cores, num_obs \in 1..MaxCount : Reset(num_cores, num_obs)
          \/ \E core \in CoreCandidates : DrawCore(core)
          \/ \E obs \in ObstacleCandidates : DrawObstacle(obs)
          \/ \E episode \in Episodes : LoadEpisode(episode)
    \/ StepCall
    \/ \E pos \in Points : SubStep(pos)

SpecStep == Init /\ [][NextStep]_vars

(* ------------------------------------------------------------------ *)
(* Properties of the generated scenario                                *)
(* ------------------------------------------------------------------ *)
RatLeq(a, b) == a[1] * b[2] <= b[1] * a[2]
RatLess(a, b) == a[1] * b[2] < b[1] * a[2]
RatSq(a) == RatMul(a, a)

\* a reset call has ended (by returning or by an exception)
ResetCompleted == env.op = "reset" /\ env.pc = "idle"
ResetReturned == ResetCompleted /\ env.outcome = "returned"

\* Gamma / pi of a core, r, v_rel_max and p as rationals
GammaOverPi(c) == Rat(c.Gamma, r_den)
RatR == Rat(r_num, r_den)
RatVRelMax == Rat(v_rel_max_num, v_rel_max_den)
RatP == Rat(p_num, p_den)
RatInv(a) == Rat(a[2], a[1])

\* boundary(c) = Gamma_c / (2 * pi * v_rel_max)
Boundary(c) == RatMul(GammaOverPi(c), RatInv(RatMul(<<2, 1>>, RatVRelMax)))

\* distance(i, j) >= boundary(i) + boundary(j)
BoundariesApart(ci, cj) ==
    RatLeq(RatSq(RatAdd(Boundary(ci), Boundary(cj))), <<Dis2(ci, cj), 1>>)

\* C1: after every completed reset, every two cores of equal rotation
\* sense, in either order, are at least boundary(i) + boundary(j) apart.
C1_SameSenseSeparated ==
    ResetCompleted =>
        \A i, j \in 1..Len(env.cores) :
            (i # j /\ env.cores[i].clockwise = env.cores[j].clockwise)
                => BoundariesApart(env.cores[i], env.cores[j])

\* a completed reset holding two cores of equal sense, the later one
\* accepted against the earlier
C1_Witness ==
    /\ ResetReturned
    /\ \E i, j \in 1..Len(env.cores) :
          i < j /\ env.cores[i].clockwise = env.cores[j].clockwise

\* Gamma_l / (2*pi*(d - 2r)) <= p * Gamma_s / (2*pi*r) for a pair at squared
\* distance d2: with d < 2r the left side is negative; with d = 2r it is
\* not defined; with d > 2r it says d >= 2r + Gamma_l * r / (p * Gamma_s).
RelativeSpeedBounded(ci, cj) ==
    LET Gamma_l == IF RatLeq(GammaOverPi(ci), GammaOverPi(cj))
                   THEN GammaOverPi(cj) ELSE GammaOverPi(ci)
        Gamma_s == IF RatLeq(GammaOverPi(ci), GammaOverPi(cj))
                   THEN GammaOverPi(ci) ELSE GammaOverPi(cj)
        twoR == RatMul(<<2, 1>>, RatR)
        d2 == <<Dis2(ci, cj), 1>>
        least == RatAdd(twoR, RatMul(RatMul(Gamma_l, RatR), RatInv(RatMul(RatP, Gamma_s))))
    IN  IF RatLess(d2, RatSq(twoR)) THEN TRUE
        ELSE IF d2 = RatSq(twoR) THEN FALSE
        ELSE RatLeq(RatSq(least), d2)

\* C2: after every completed reset, every two cores of opposite rotation
\* sense satisfy Gamma_l / (2*pi*(d - 2r)) <= p * Gamma_s / (2*pi*r).
C2_OppositeSenseBounded ==
    ResetCompleted =>
        \A i, j \in 1..Len(env.cores) :
            (i # j /\ env.cores[i].clockwise # env.cores[j].clockwise)
                => RelativeSpeedBounded(env.cores[i], env.cores[j])

\* a completed reset holding two cores of opposite sense whose discs are
\* apart (d > 2r) and whose circulations differ
C2_Witness ==
    /\ ResetReturned
    /\ \E i, j \in 1..Len(env.cores) :
          /\ i < j
          /\ env.cores[i].clockwise # env.cores[j].clockwise
          /\ env.cores[i].Gamma # env.cores[j].Gamma
          /\ Dis2(env.cores[i], env.cores[j]) * r_den * r_den > 4 * r_num * r_num

\* distance(a, b) > bound, bound a rational
FartherThan(a, b, bound) == RatLess(RatSq(bound), <<Dis2(a, b), 1>>)

\* C3: in and after every reset, every accepted obstacle is strictly apart
\* from every core (distance > r + o.r) and from every other accepted
\* obstacle (distance > o.r + o2.r): no candidate that touches or overlaps
\* one is ever in the list.
C3_ObstaclesSeparated ==
    env.op = "reset" =>
        /\ \A o \in 1..Len(env.obstacles) : \A c \in 1..Len(env.cores) :
              FartherThan(env.cores[c], env.obstacles[o],
                          RatAdd(RatR, <<env.obstacles[o].r, 1>>))
        /\ \A o, o2 \in 1..Len(env.obstacles) :
              o # o2 => FartherThan(env.obstacles[o], env.obstacles[o2],
                                    <<env.obstacles[o].r + env.obstacles[o2].r, 1>>)

\* a completed reset holding a core and two obstacles
C3_Witness ==
    /\ ResetReturned
    /\ Len(env.cores) >= 1
    /\ Len(env.obstacles) >= 2

\* C7: whenever reset(num_cores, num_obs) returns, both counts >= 1, the
\* scenario holds exactly num_cores cores and num_obs obstacles, whatever
\* the scenario held when reset was called.
C7_ExactCounts ==
    (ResetReturned /\ env.req_cores >= 1 /\ env.req_obs >= 1) =>
        /\ Len(env.cores) = env.req_cores
        /\ Len(env.obstacles) = env.req_obs

\* a reset that returned after discarding an earlier scenario
C7_Witness ==
    /\ ResetReturned
    /\ env.replaced
    /\ env.req_cores >= 1 /\ env.req_obs >= 1
    /\ Len(env.cores) = env.req_cores

\* reset was given counts >= 1 and the loop it is in can accept no
\* candidate any more
Infeasible ==
    \/ /\ env.pc = "core_loop" /\ env.num_cores > 0
       /\ \A core \in CoreCandidates : ~check_core(env.cores, core)
    \/ /\ env.pc = "obs_loop" /\ env.req_cores > 0 /\ env.num_obs > 0
       /\ \A obs \in ObstacleCandidates : ~check_obstacle(env.cores, env.obstacles, obs)

\* C5: a reset that no further candidate can satisfy ends, with a
\* PlacementInfeasible failure.
C5_InfeasibleResetFails ==
    Infeasible ~> (env.pc = "idle" /\ env.outcome = "PlacementInfeasible")

\* C6: a reset called with a zero core count or a zero obstacle count is
\* rejected at entry with InvalidConfiguration: it is never inside a loop
\* and places nothing.
C6_ZeroCountRejected ==
    (env.op = "reset" /\ (env.req_cores = 0 \/ env.req_obs = 0)) =>
        /\ env.pc = "idle"
        /\ env.outcome = "InvalidConfiguration"
        /\ env.cores = <<>>
        /\ env.obstacles = <<>>

\* C8: after every reset and every load_episode the index core_centers is
\* built over the positions of the current cores, in their order; so every
\* get_velocity query is answered from the index of the current cores.
C8_IndexCurrent ==
    (env.pc = "idle" /\ env.op \in {"reset", "load_episode"}) =>
        env.core_centers = Centers(env.cores)

\* C9: get_velocity gives a well-defined vector at every query point, a
\* core centre included (here: in the scenario a reset with counts >= 1
\* returned, which holds two or more cores and their index).
C9_FieldEvaluationTotal ==
    (/\ gv.status # "none"
     /\ ResetReturned /\ env.req_cores >= 1 /\ env.req_obs >= 1
     /\ Len(env.cores) >= 2 /\ env.core_centers = Centers(env.cores))
        => gv.status = "ok"

body_to_world(T, point_r) == VecAdd(MatVec(T.R_wr, point_r), T.t_wr)

\* C10: the transform get_observation applies is the inverse of the
\* robot's (R_wr, t_wr): the goal and every sonar point it returns, mapped
\* back with R_wr and t_wr, are the world points they came from (the flag
\* of a sonar point unchanged), and the velocity it returns, mapped back
\* with R_wr alone, is the robot's velocity.
C10_InverseTransform ==
    frame.obs.status = "returned" =>
        LET T == get_robot_transform(frame)
        IN  /\ body_to_world(T, frame.obs.goal_r) = RatVec(goal)
            /\ Len(frame.obs.sonar_points_r) = Len(frame.reflections)
            /\ \A i \in 1..Len(frame.reflections) :
                  /\ body_to_world(T, <<frame.obs.sonar_points_r[i][1],
                                        frame.obs.sonar_points_r[i][2]>>)
                       = RatVec(frame.reflections[i])
                  /\ frame.obs.sonar_points_r[i][3] = frame.reflections[i][3]
            /\ MatVec(T.R_wr, frame.obs.abs_velocity_r) = RatVec(frame.velocity)

\* an observation at a heading off the axes, away from the origin, moving,
\* with two sonar points
C10_Witness ==
    /\ frame.obs.status = "returned"
    /\ frame.theta[1] # 0 /\ frame.theta[2] # 0
    /\ frame.x # 0 /\ frame.velocity # <<0, 0>>
    /\ Len(frame.obs.sonar_points_r) = 2
    /\ frame.obs.goal_r # RatVec(goal)

\* C11: a call of get_observation changes nothing but what it returns:
\* the cores, the obstacles, the index, the robot's position, heading and
\* velocity and the reflections the robot's sonar holds (coordinates and
\* flag) are after the call what they were before it.
C11_ObservationNoSideEffects ==
    [][(\E reflections \in FrameReflections : GetObservation(reflections)) =>
          /\ env' = env
          /\ robot' = robot
          /\ frame'.x = frame.x /\ frame'.y = frame.y
          /\ frame'.theta = frame.theta /\ frame'.velocity = frame.velocity
          /\ frame'.reflections = frame.reflections]_vars

\* C12: compute_speed(Gamma, d) is Gamma*d/(2*pi*r^2) for d <= r and
\* Gamma/(2*pi*d) for d > r; at d = r it is Gamma/(2*pi*r), the value of
\* both; for r = 1/2 and Gamma = 2*pi*r*7 it is 7 at d = 1/2 and 7/2 at d = 1.
C12_SpeedPiecewise ==
    fcall.op = "compute_speed" =>
        LET G == Rat(fcall.in.Gamma, r_den)
            d == fcall.in.d
            ramp == RatMul(RatMul(G, d), RatInv(RatMul(<<2, 1>>, RatSq(RatR))))
            decay == RatMul(G, RatInv(RatMul(<<2, 1>>, d)))
        IN  /\ RatLeq(d, RatR) => fcall.out = ramp
            /\ RatLess(RatR, d) => fcall.out = decay
            /\ d = RatR => (ramp = decay
                            /\ fcall.out = RatMul(G, RatInv(RatMul(<<2, 1>>, RatR))))
            /\ (RatR = <<1, 2>> /\ fcall.in.Gamma = GammaOf(7) /\ d = <<1, 2>>)
                  => fcall.out = <<7, 1>>
            /\ (RatR = <<1, 2>> /\ fcall.in.Gamma = GammaOf(7) /\ d = <<1, 1>>)
                  => fcall.out = <<7, 2>>

\* compute_speed called at the edge of the core with the circulation of
\* edge speed 7
C12_Witness ==
    /\ fcall.op = "compute_speed"
    /\ fcall.in.Gamma = GammaOf(7) /\ fcall.in.d = RatR
    /\ fcall.out = <<7, 1>>

\* the contributions of cores[1..n] added up in list order, and in the
\* reverse of it
RECURSIVE SumInListOrder(_, _, _, _)
SumInListOrder(cores, n, x, y) ==
    IF n = 0 THEN [status |-> "ok", vx |-> RatZero, vy |-> RatZero]
    ELSE Accumulate(SumInListOrder(cores, n - 1, x, y), Contribution(cores[n], x, y))

Reversed(cores) == [i \in 1..Len(cores) |-> cores[Len(cores) + 1 - i]]

Rotate90(v) == <<0 - v[2], v[1]>>
RotateMinus90(v) == <<v[2], 0 - v[1]>>

\* v_velocity after the pass is v_tangent scaled by speed / dis
AlongTangent(out, core) ==
    LET d2 == out.v_radial[1] * out.v_radial[1] + out.v_radial[2] * out.v_radial[2]
        s == SpeedOverDis(core.Gamma, d2)
    IN  d2 # 0 =>
          /\ out.v_velocity.vx = RatMul(<<out.v_tangent[1], 1>>, s)
          /\ out.v_velocity.vy = RatMul(<<out.v_tangent[2], 1>>, s)

\* C14, as stated: the tangential direction is the radial vector (from the
\* query point toward the core centre) turned by +90 degrees when the core's
\* clockwise flag is false and by -90 degrees when it is true.
C14_TangentAsStated ==
    fcall.op = "pass" =>
        fcall.out.v_tangent =
            IF fcall.in.core.clockwise = 1
            THEN RotateMinus90(fcall.out.v_radial)
            ELSE Rotate90(fcall.out.v_radial)

\* C14, amended: the tangential direction is the radial vector turned by
\* +90 degrees when the core's clockwise flag is true and by -90 degrees
\* when it is false, and the core's contribution points along it.
C14_TangentBySense ==
    fcall.op = "pass" =>
        /\ fcall.out.v_tangent =
              IF fcall.in.core.clockwise = 1
              THEN Rotate90(fcall.out.v_radial)
              ELSE RotateMinus90(fcall.out.v_radial)
        /\ AlongTangent(fcall.out, fcall.in.core)

\* a pass for a clockwise core up and to the right of the query point
C14_Witness ==
    /\ fcall.op = "pass"
    /\ fcall.in.core.clockwise = 1
    /\ fcall.out.v_radial[1] > 0 /\ fcall.out.v_radial[2] > 0
    /\ fcall.out.v_tangent[1] < 0 /\ fcall.out.v_tangent[2] > 0
    /\ fcall.out.v_velocity.status = "ok"

\* C15: a call of step makes exactly robot.N passes, each evaluating the
\* field where the pass before left the robot (the first where the robot
\* was at the call) and then calling update_state once; the cores, the
\* obstacles and the index are after the call what they were before it.
C15_StepMakesNSubSteps ==
    stepc.pc = "done" =>
        /\ stepc.outcome = "returned"
        /\ Len(stepc.passes) = RobotN
        /\ stepc.updates = RobotN
        /\ \A k \in 1..Len(stepc.passes) :
              stepc.passes[k].at = IF k = 1 THEN stepc.start
                                   ELSE stepc.passes[k - 1].to
        /\ Scenario(env) = stepc.scenario

\* the same, for the calls made where the field can be evaluated: on two
\* cores and more, indexed
StepOnIndexedCores ==
    (Len(env.cores) >= 2 /\ env.core_centers = Centers(env.cores))
        => C15_StepMakesNSubSteps

\* C16: after every reset that returned (counts of one and more), no two
\* cores overlap: every two cores, of equal or opposite sense, have their
\* centres 2r apart or more; so a candidate of opposite sense nearer than
\* 2r to a core was rejected.
C16_CoreDiscsDisjoint ==
    (ResetReturned /\ env.req_cores >= 1 /\ env.req_obs >= 1) =>
        \A i, j \in 1..Len(env.cores) :
            i # j => RatLeq(RatSq(RatMul(<<2, 1>>, RatR)),
                            <<Dis2(env.cores[i], env.cores[j]), 1>>)

====
